---- MODULE Spec2Model ----
(***************************************************************************)
(* Model of acacore/siegfried/siegfried.py: decoding of Siegfried's JSON    *)
(* output into SiegfriedResult / SiegfriedFile / SiegfriedMatch, the        *)
(* evidence parsers of SiegfriedMatch and the ranking queries of            *)
(* SiegfriedFile.                                                           *)
(*                                                                         *)
(* A Python str is a sequence of one-character strings.  An Optional[T] is  *)
(* the record None or Some(v).  Fields the code only carries along (ns,     *)
(* class, URI, permalink, filename, filesize, modified, errors and the      *)
(* scan metadata) are left out of the records.                              *)
(***************************************************************************)
EXTENDS Integers, Sequences, FiniteSets, TLC

None == [some |-> FALSE]
Some(v) == [some |-> TRUE, val |-> v]

(***************************************************************************)
(* Python str methods used by the code.                                     *)
(***************************************************************************)
Whitespace == {" ", "\t", "\n"}

UpperCase == <<"A","B","C","D","E","F","G","H","I","J","K","L","M",
               "N","O","P","Q","R","S","T","U","V","W","X","Y","Z">>

LowerCase == <<"a","b","c","d","e","f","g","h","i","j","k","l","m",
               "n","o","p","q","r","s","t","u","v","w","x","y","z">>

LowerChar(c) ==
    IF \E i \in 1..Len(UpperCase) : UpperCase[i] = c
    THEN LowerCase[CHOOSE i \in 1..Len(UpperCase) : UpperCase[i] = c]
    ELSE c

\* str.lower()
lower(s) == [i \in 1..Len(s) |-> LowerChar(s[i])]

RECURSIVE lstrip(_)
lstrip(s) ==
    IF s # <<>> /\ Head(s) \in Whitespace THEN lstrip(Tail(s)) ELSE s

RECURSIVE rstrip(_)
rstrip(s) ==
    IF s # <<>> /\ s[Len(s)] \in Whitespace
    THEN rstrip(SubSeq(s, 1, Len(s) - 1))
    ELSE s

\* str.strip()
strip(s) == rstrip(lstrip(s))

\* str.split(sep) for a one-character separator
RECURSIVE split(_, _)
split(s, sep) ==
    IF \E i \in 1..Len(s) : s[i] = sep
    THEN LET i == CHOOSE k \in 1..Len(s) :
                      s[k] = sep /\ \A j \in 1..(k - 1) : s[j] # sep
         IN  <<SubSeq(s, 1, i - 1)>> \o split(SubSeq(s, i + 1, Len(s)), sep)
    ELSE <<s>>

\* "needle in haystack" for a list
InList(x, l) == \E i \in 1..Len(l) : l[i] = x

(***************************************************************************)
(* The regular expressions of the module, matched as re.match does.         *)
(***************************************************************************)
Digits == <<"0","1","2","3","4","5","6","7","8","9">>

IsDigit(c) == \E i \in 1..Len(Digits) : Digits[i] = c

DigitValue(c) == (CHOOSE i \in 1..Len(Digits) : Digits[i] = c) - 1

\* int(str) of a run of decimal digits
RECURSIVE int(_)
int(s) ==
    IF s = <<>> THEN 0
    ELSE 10 * int(SubSeq(s, 1, Len(s) - 1)) + DigitValue(s[Len(s)])

\* the literal lit stands in s at position i
LitAt(s, i, lit) ==
    /\ i + Len(lit) - 1 <= Len(s)
    /\ SubSeq(s, i, i + Len(lit) - 1) = lit

\* the position after the longest run of digits starting at i (\d*)
RECURSIVE SkipDigits(_, _)
SkipDigits(s, i) ==
    IF i <= Len(s) /\ IsDigit(s[i]) THEN SkipDigits(s, i + 1) ELSE i

\* the position after the longest run of spaces starting at i ( *)
RECURSIVE SkipSpaces(_, _)
SkipSpaces(s, i) ==
    IF i <= Len(s) /\ s[i] = " " THEN SkipSpaces(s, i + 1) ELSE i

\* the position after the longest run of characters other than ")" ([^)]*)
RECURSIVE SkipNotParen(_, _)
SkipNotParen(s, i) ==
    IF i <= Len(s) /\ s[i] # ")" THEN SkipNotParen(s, i + 1) ELSE i

\* $ : at the end of the string or just before a final newline
AtEnd(s, i) == i = Len(s) + 1 \/ (i = Len(s) /\ s[i] = "\n")

ByteMatchAt == <<"b","y","t","e"," ","m","a","t","c","h"," ","a","t"," ">>

ExtensionMatchLit ==
    <<"e","x","t","e","n","s","i","o","n"," ","m","a","t","c","h"," ">>

\* a re.Match is the sequence of its groups; NoMatch is re.match's None
NoMatch == <<>>

\* \([^)]*\)$ from position i on
NoteAt(s, i) ==
    /\ i <= Len(s) /\ s[i] = "("
    /\ LET p == SkipNotParen(s, i + 1)
       IN  p <= Len(s) /\ s[p] = ")" /\ AtEnd(s, p + 1)

\* ^byte match at (\d+), *(\d+)( *\([^)]*\))?$
_byte_match_regexp_single(s) ==
    IF ~LitAt(s, 1, ByteMatchAt) THEN NoMatch
    ELSE LET a  == Len(ByteMatchAt) + 1
             b  == SkipDigits(s, a)
             c  == SkipSpaces(s, b + 1)
             d  == SkipDigits(s, c)
         IN  IF /\ b > a
                /\ b <= Len(s) /\ s[b] = ","
                /\ d > c
                /\ (AtEnd(s, d) \/ NoteAt(s, SkipSpaces(s, d)))
             THEN <<SubSeq(s, a, b - 1), SubSeq(s, c, d - 1)>>
             ELSE NoMatch

\* the position after ( \[\d+ +\d+])* starting at i
RECURSIVE SkipPairs(_, _)
SkipPairs(s, i) ==
    IF ~LitAt(s, i, <<" ", "[">>) THEN i
    ELSE LET a == i + 2
             b == SkipDigits(s, a)
             c == SkipSpaces(s, b)
             d == SkipDigits(s, c)
         IN  IF b > a /\ c > b /\ d > c /\ d <= Len(s) /\ s[d] = "]"
             THEN SkipPairs(s, d + 1)
             ELSE i

\* ^byte match at \[\[(\d+) +(\d+)]( \[\d+ +\d+])*]( \([^)]*\))?$
_byte_match_regexp_multi(s) ==
    IF ~LitAt(s, 1, ByteMatchAt \o <<"[", "[">>) THEN NoMatch
    ELSE LET a == Len(ByteMatchAt) + 3
             b == SkipDigits(s, a)
             c == SkipSpaces(s, b)
             d == SkipDigits(s, c)
             e == SkipPairs(s, d + 1)
         IN  IF /\ b > a /\ c > b /\ d > c
                /\ d <= Len(s) /\ s[d] = "]"
                /\ e <= Len(s) /\ s[e] = "]"
                /\ \/ AtEnd(s, e + 1)
                   \/ (LitAt(s, e + 1, <<" ">>) /\ NoteAt(s, e + 2))
             THEN <<SubSeq(s, a, b - 1), SubSeq(s, c, d - 1)>>
             ELSE NoMatch

\* ^extension match (.+)$
_extension_match(s) ==
    IF ~LitAt(s, 1, ExtensionMatchLit) THEN NoMatch
    ELSE LET a == Len(ExtensionMatchLit) + 1
             e == IF s[Len(s)] = "\n" THEN Len(s) - 1 ELSE Len(s)
         IN  IF e >= a /\ \A i \in a..e : s[i] # "\n"
             THEN <<SubSeq(s, a, e)>>
             ELSE NoMatch

(***************************************************************************)
(* SiegfriedMatch.  A match object is the record                            *)
(*   [oid, id, format, version, mime, basis, warning]                       *)
(* where oid is the identity of the Python object (the position at which    *)
(* decoding created it), id and version are Optional[str], format and mime  *)
(* are str, and basis and warning are list[str].                            *)
(***************************************************************************)

\* bool(x) of an Optional[str]
Truthy(o) == o.some /\ o.val # <<>>

\* _byte_match_regexp_single.match(basis) or _byte_match_regexp_multi.match(basis)
\* "a or b" of two re.match results: a re.Match is true, None is false
Or(a, b) == IF a # NoMatch THEN a ELSE b

ByteMatchRe(basis) ==
    Or(_byte_match_regexp_single(basis), _byte_match_regexp_multi(basis))

\* the index of the first re.Match in a list of match results, 0 if none
FirstMatch(ms) ==
    IF \E i \in 1..Len(ms) : ms[i] # NoMatch
    THEN CHOOSE k \in 1..Len(ms) :
             ms[k] # NoMatch /\ \A j \in 1..(k - 1) : ms[j] = NoMatch
    ELSE 0

\* byte_match with the two groups swapped in the subtraction
ByteMatchReturn_swapped(ms) ==
    IF FirstMatch(ms) # 0
    THEN Some(int(ms[FirstMatch(ms)][1]) - int(ms[FirstMatch(ms)][2]))
    ELSE None

\* return int(match.group(2)) - int(match.group(1)) at the first match of
\* the loop over self.basis, return None after the loop
ByteMatchReturn(ms) ==
    LET k == FirstMatch(ms)
    IN  IF k # 0 THEN Some(int(ms[k][2]) - int(ms[k][1])) ELSE None

byte_match(self) ==
    ByteMatchReturn([i \in 1..Len(self.basis) |-> ByteMatchRe(self.basis[i])])

\* return match.group(1) at the first match of the loop, None after it
ExtensionMatchReturn(ms) ==
    LET k == FirstMatch(ms)
    IN  IF k # 0 THEN Some(ms[k][1]) ELSE None

extension_match(self) ==
    ExtensionMatchReturn(
        [i \in 1..Len(self.basis) |-> _extension_match(self.basis[i])])

ExtensionMismatchLit ==
    <<"e","x","t","e","n","s","i","o","n"," ","m","i","s","m","a","t","c","h">>

FilenameMismatchLit ==
    <<"f","i","l","e","n","a","m","e"," ","m","i","s","m","a","t","c","h">>

extension_mismatch(self) == InList(ExtensionMismatchLit, self.warning)

filename_mismatch(self) == InList(FilenameMismatchLit, self.warning)

\* sort_tuple with the extension match put before the byte match
SortTupleOf_extension_first(self, byte, extension) ==
    << IF Truthy(extension) THEN 1 ELSE 0,
       IF byte.some /\ byte.val # 0 THEN byte.val ELSE 0,
       IF self.format # <<>> THEN 1 ELSE 0,
       IF Truthy(self.version) THEN 1 ELSE 0,
       IF self.mime # <<>> THEN 1 ELSE 0 >>

\* the tuple sort_tuple returns, from the values of the two calls it makes
SortTupleOf(self, byte, extension) ==
    << IF byte.some /\ byte.val # 0 THEN byte.val ELSE 0,
       IF Truthy(extension) THEN 1 ELSE 0,
       IF self.format # <<>> THEN 1 ELSE 0,
       IF Truthy(self.version) THEN 1 ELSE 0,
       IF self.mime # <<>> THEN 1 ELSE 0 >>

sort_tuple(self) == SortTupleOf(self, byte_match(self), extension_match(self))

UnknownLit == <<"u","n","k","n","o","w","n">>

\* filter(bool, map(str.strip, raw.strip().split(";")))
SplitField(raw) ==
    LET parts == split(strip(raw), ";")
    IN  SelectSeq([i \in 1..Len(parts) |-> strip(parts[i])],
                  LAMBDA f : f # <<>>)

\* A transport value of basis / warning is [form |-> "str", str |-> str] or
\* [form |-> "list", items |-> list of str].  Only a str has .strip(): for a
\* list the attribute lookup raises AttributeError.
HasStrip(field) == field.form = "str"

\* unknown_id without .lower(): only the lower-case word is recognised
unknown_id_case_sensitive(data) ==
    IF ~HasStrip(data.basis) \/ ~HasStrip(data.warning)
    THEN [ok |-> FALSE, exc |-> "AttributeError"]
    ELSE [ok |-> TRUE,
          val |-> [data EXCEPT
                     !.id = IF strip(data.id) = UnknownLit
                            THEN None
                            ELSE IF strip(data.id) # <<>>
                                 THEN Some(strip(data.id))
                                 ELSE None,
                     !.basis = SplitField(data.basis.str),
                     !.warning = SplitField(data.warning.str)]]

\* The "before" validator of SiegfriedMatch, applied to the dict of one match.
\* The outcome is [ok |-> TRUE, val |-> dict] or [ok |-> FALSE, exc |-> name].
unknown_id(data) ==
    IF ~HasStrip(data.basis) \/ ~HasStrip(data.warning)
    THEN [ok |-> FALSE, exc |-> "AttributeError"]
    ELSE [ok |-> TRUE,
          val |-> [data EXCEPT
                     !.id = IF strip(lower(data.id)) = UnknownLit
                            THEN None
                            ELSE IF strip(data.id) # <<>>
                                 THEN Some(strip(data.id))
                                 ELSE None,
                     !.basis = SplitField(data.basis.str),
                     !.warning = SplitField(data.warning.str)]]

(***************************************************************************)
(* SiegfriedFile.  A file object is the record [matches |-> list of match   *)
(* objects].  A method is the record [self |-> the object after the call,   *)
(* value |-> what the call returns].                                        *)
(***************************************************************************)

\* Python's comparison of two tuples of integers of the same length
TupleLess(a, b) ==
    \E i \in 1..Len(a) : a[i] < b[i] /\ \A j \in 1..(i - 1) : a[j] = b[j]

\* one step of a stable sort of <<key, item>> pairs: x goes after every
\* pair whose key is not greater
RECURSIVE Insert(_, _)
Insert(l, x) ==
    IF l # <<>> /\ TupleLess(x[1], l[Len(l)][1])
    THEN Insert(SubSeq(l, 1, Len(l) - 1), x) \o <<l[Len(l)]>>
    ELSE l \o <<x>>

RECURSIVE StableSort(_)
StableSort(l) ==
    IF l = <<>> THEN <<>>
    ELSE Insert(StableSort(SubSeq(l, 1, Len(l) - 1)), l[Len(l)])

\* list.sort(key=SiegfriedMatch.sort_tuple): the key of each item is computed
\* once, and the sort is ascending and stable
Items(keyed) == [i \in 1..Len(keyed) |-> keyed[i][2]]

list_sort(l) ==
    Items(StableSort([i \in 1..Len(l) |-> <<sort_tuple(l[i]), l[i]>>]))

Reverse(l) == [i \in 1..Len(l) |-> l[Len(l) + 1 - i]]

\* sorted without reverse=True
sorted_ascending(l) == list_sort(l)

\* sorted(...)[::-1] in place of reverse=True: equal keys come out reversed
sorted_then_reversed(l) == Reverse(list_sort(l))

\* sorted(l, key=SiegfriedMatch.sort_tuple, reverse=True): descending, and
\* stable too (elements with equal keys keep their order in l)
sorted_reverse(l) == Reverse(list_sort(Reverse(l)))

\* [m for m in self.matches if m.id]
KnownMatches(self) == SelectSeq(self.matches, LAMBDA m : Truthy(m.id))

\* return matches[-1] if matches else None
LastOrNone(self, matches) ==
    [self  |-> self,
     value |-> IF matches # <<>> THEN Some(matches[Len(matches)]) ELSE None]

\* best_match without the filter on id
best_match_unfiltered(self) == LastOrNone(self, list_sort(self.matches))

best_match(self) == LastOrNone(self, list_sort(KnownMatches(self)))

best_matches(self) ==
    [self |-> self, value |-> sorted_reverse(KnownMatches(self))]

(***************************************************************************)
(* Decoding.  The payload on Siegfried's standard output is the record      *)
(*   [extra |-> the scan object has a key that is no declared field,        *)
(*    files |-> list of [extra |-> the same for the file object,            *)
(*                       matches |-> list of match dicts]]                  *)
(* and a match dict is [id, format, version, mime, basis, warning].         *)
(* A validation ends [ok |-> TRUE, val |-> object] or                       *)
(* [ok |-> FALSE, exc |-> name of the exception].                           *)
(***************************************************************************)

\* pydantic's default for extra keys; SiegfriedFile sets no model_config
SiegfriedFile_extra == "ignore"

\* model_config = ConfigDict(extra="forbid")
SiegfriedResult_extra == "forbid"

\* SiegfriedMatch.model_validate of the i-th match dict of a file
\* the match object built from what the "before" validator returned
MatchObject(r, i) ==
    IF r.ok
    THEN [ok |-> TRUE,
          val |-> [oid |-> i, id |-> r.val.id, format |-> r.val.format,
                   version |-> r.val.version, mime |-> r.val.mime,
                   basis |-> r.val.basis, warning |-> r.val.warning]]
    ELSE r

SiegfriedMatch_validate(data, i) == MatchObject(unknown_id(data), i)

\* the outcome of validating a list of items: the first failure, or the list
ValidateAll(rs) ==
    IF \E i \in 1..Len(rs) : ~rs[i].ok
    THEN rs[CHOOSE k \in 1..Len(rs) :
                ~rs[k].ok /\ \A j \in 1..(k - 1) : rs[j].ok]
    ELSE [ok |-> TRUE, val |-> [i \in 1..Len(rs) |-> rs[i].val]]

\* the file object built from its validated matches, under the model's
\* treatment of extra keys
FileObject(data, ms) ==
    IF ~ms.ok THEN ms
    ELSE IF data.extra /\ SiegfriedFile_extra = "forbid"
    THEN [ok |-> FALSE, exc |-> "ValidationError"]
    ELSE [ok |-> TRUE, val |-> [matches |-> ms.val]]

SiegfriedFile_validate(data) ==
    FileObject(data,
               ValidateAll([i \in 1..Len(data.matches) |->
                               SiegfriedMatch_validate(data.matches[i], i)]))

ResultObject(data, fs) ==
    IF ~fs.ok THEN fs
    ELSE IF data.extra /\ SiegfriedResult_extra = "forbid"
    THEN [ok |-> FALSE, exc |-> "ValidationError"]
    ELSE [ok |-> TRUE, val |-> [files |-> fs.val]]

\* SiegfriedResult.model_validate_json(process.stdout)
SiegfriedResult_validate(data) ==
    ResultObject(data,
                 ValidateAll([i \in 1..Len(data.files) |->
                                 SiegfriedFile_validate(data.files[i])]))

\* pydantic's ValidationError is a ValueError; AttributeError is not
IsValueError(exc) == exc = "ValidationError"

\* try: ... except ValueError as err: raise IdentificationError(err)
Raised(exc) ==
    [kind |-> "raise",
     exc  |-> IF IsValueError(exc) THEN "IdentificationError" ELSE exc]

Min(a, b) == IF a <= b THEN a ELSE b

\* Siegfried.identify: [kind |-> "result", files |-> result.files] or a raise
\* return the result, or raise
ReturnResult(r) ==
    IF r.ok THEN [kind |-> "result", files |-> r.val.files]
    ELSE Raised(r.exc)

\* Siegfried.identify: [kind |-> "result", files |-> result.files] or a raise
identify(process_stdout) ==
    ReturnResult(SiegfriedResult_validate(process_stdout))

\* return tuple(zip(paths, result.files)), or raise
ReturnZip(paths, r) ==
    IF r.ok
    THEN [kind  |-> "pairs",
          paths |-> SubSeq(paths, 1, Min(Len(paths), Len(r.val.files))),
          files |-> SubSeq(r.val.files, 1, Min(Len(paths), Len(r.val.files)))]
    ELSE Raised(r.exc)

\* Siegfried.identify_many: the pairs (path, SiegfriedFile) or a raise
identify_many(paths, process_stdout) ==
    ReturnZip(paths, SiegfriedResult_validate(process_stdout))

(***************************************************************************)
(* The payloads the model decodes.                                          *)
(***************************************************************************)
MaxMatches == 3

MaxFiles == 2

\* transport values of basis in the single-string form
BasisStrings ==
    { <<"b","y","t","e"," ","m","a","t","c","h"," ","a","t"," ","1","0",","," ","4","2">>,
        \* 'byte match at 10, 42'
      <<"b","y","t","e"," ","m","a","t","c","h"," ","a","t"," ","1","0",",","4","2"," ","(","s","i","g","n","a","t","u","r","e"," ","1","/","2",")">>,
        \* 'byte match at 10,42 (signature 1/2)'
      <<"b","y","t","e"," ","m","a","t","c","h"," ","a","t"," ","1","0",","," "," "," ","4","2","(","x",")">>,
        \* 'byte match at 10,   42(x)'
      <<"b","y","t","e"," ","m","a","t","c","h"," ","a","t"," ","[","[","5"," ","2","0","]"," ","[","5"," ","2","0","]","]">>,
        \* 'byte match at [[5 20] [5 20]]'
      <<"b","y","t","e"," ","m","a","t","c","h"," ","a","t"," ","[","[","5"," ","2","0","]","]">>,
        \* 'byte match at [[5 20]]'
      <<"b","y","t","e"," ","m","a","t","c","h"," ","a","t"," ","[","[","0"," ","4","]"," ","[","3","0"," "," ","4","2","]"," ","[","5","0"," ","6","0","]","]"," ","(","s","i","g",")">>,
        \* 'byte match at [[0 4] [30  42] [50 60]] (sig)'
      <<"b","y","t","e"," ","m","a","t","c","h"," ","a","t"," ","4","2",","," ","1","0">>,
        \* 'byte match at 42, 10'
      <<"b","y","t","e"," ","m","a","t","c","h"," ","a","t"," ","7",","," ","7">>,
        \* 'byte match at 7, 7'
      <<"e","x","t","e","n","s","i","o","n"," ","m","a","t","c","h"," ","p","d","f">>,
        \* 'extension match pdf'
      <<"e","x","t","e","n","s","i","o","n"," ","m","a","t","c","h"," ",".","p","d","f"," ","(","n","o","t","e",")">>,
        \* 'extension match .pdf (note)'
      <<"e","x","t","e","n","s","i","o","n"," ","m","a","t","c","h"," "," ","p","d","f">>,
        \* 'extension match  pdf'
      <<"e","x","t","e","n","s","i","o","n"," ","m","a","t","c","h"," ","p","d","f",";"," ","b","y","t","e"," ","m","a","t","c","h"," ","a","t"," ","0",","," ","8">>,
        \* 'extension match pdf; byte match at 0, 8'
      <<" ","b","y","t","e"," ","m","a","t","c","h"," ","a","t"," ","0",","," ","8"," ",";",";"," ","e","x","t","e","n","s","i","o","n"," ","m","a","t","c","h"," ","p","d","f"," ",";"," ">>,
        \* ' byte match at 0, 8 ;; extension match pdf ; '
      <<"c","o","n","t","a","i","n","e","r"," ","n","a","m","e"," ","f","o","o",";"," ","b","y","t","e"," ","m","a","t","c","h"," ","a","t"," ","1",","," ","3">>,
        \* 'container name foo; byte match at 1, 3'
      <<"b","y","t","e"," ","m","a","t","c","h"," ","a","t"," ","1",","," ","3",";"," ","b","y","t","e"," ","m","a","t","c","h"," ","a","t"," ","0",","," ","9">>,
        \* 'byte match at 1, 3; byte match at 0, 9'
      <<"b","y","t","e"," ","m","a","t","c","h"," ","a","t"," ","[","[","1"," ","4","]","]"," ",";"," ","b","y","t","e"," ","m","a","t","c","h"," ","a","t"," ","0",","," ","9">>,
        \* 'byte match at [[1 4]] ; byte match at 0, 9'
      <<"e","x","t","e","n","s","i","o","n"," ","m","a","t","c","h"," ","a",";","e","x","t","e","n","s","i","o","n"," ","m","a","t","c","h"," ","b">>,
        \* 'extension match a;extension match b'
      <<"b","y","t","e"," ","m","a","t","c","h"," ","a","t"," ","[","[","5"," ","2","0","]"," ","[","5","]","]">>,
        \* 'byte match at [[5 20] [5]]'
      <<"b","y","t","e"," ","m","a","t","c","h"," ","a","t"," ","[","[","5"," ","2","0","]","[","6"," ","7","]","]">>,
        \* 'byte match at [[5 20][6 7]]'
      <<"b","y","t","e"," ","m","a","t","c","h"," ","a","t"," ","1","0",","," ","4","2"," ","t","r","a","i","l","i","n","g">>,
        \* 'byte match at 10, 42 trailing'
      <<"b","y","t","e"," ","m","a","t","c","h"," ","a","t"," ","1","0",","," ","4","2"," ","(","a",")"," ","(","b",")">>,
        \* 'byte match at 10, 42 (a) (b)'
      <<"x","b","y","t","e"," ","m","a","t","c","h"," ","a","t"," ","1",","," ","2">>,
        \* 'xbyte match at 1, 2'
      <<"B","y","t","e"," ","m","a","t","c","h"," ","a","t"," ","1",","," ","2">>,
        \* 'Byte match at 1, 2'
      <<"b","y","t","e"," ","m","a","t","c","h"," ","a","t"," ",","," ","2">>,
        \* 'byte match at , 2'
      <<"t","e","x","t"," ","m","a","t","c","h"," ","A","S","C","I","I">>,
        \* 'text match ASCII'
      <<"e","x","t","e","n","s","i","o","n"," ","m","a","t","c","h">>,
        \* 'extension match'
      <<>>,
        \* ''
      <<";">>,
        \* ';'
      <<" ",";"," ">> }
        \* ' ; '

\* transport values of id
IdStrings ==
    { <<"u","n","k","n","o","w","n">>,
        \* 'unknown'
      <<"U","N","K","N","O","W","N">>,
        \* 'UNKNOWN'
      <<" ","U","n","k","n","o","w","n"," ">>,
        \* ' Unknown '
      <<"\t","u","N","k","N","o","W","n","\n">>,
        \* '\tuNkNoWn\n'
      <<"u","n","k","n","o","w","n","s">>,
        \* 'unknowns'
      <<"u","n"," ","k","n","o","w","n">>,
        \* 'un known'
      <<>>,
        \* ''
      <<" "," ">>,
        \* '  '
      <<"f","m","t","/","1">>,
        \* 'fmt/1'
      <<" ","f","m","t","/","1"," ">>,
        \* ' fmt/1 '
      <<"x","-","f","m","t","/","u","n","k","n","o","w","n">> }
        \* 'x-fmt/unknown'

\* transport values of warning in the single-string form
WarningStrings ==
    { <<>>,
        \* ''
      <<"e","x","t","e","n","s","i","o","n"," ","m","i","s","m","a","t","c","h">>,
        \* 'extension mismatch'
      <<"f","i","l","e","n","a","m","e"," ","m","i","s","m","a","t","c","h">>,
        \* 'filename mismatch'
      <<"e","x","t","e","n","s","i","o","n"," ","m","i","s","m","a","t","c","h",";"," ","f","i","l","e","n","a","m","e"," ","m","i","s","m","a","t","c","h">>,
        \* 'extension mismatch; filename mismatch'
      <<"e","x","t","e","n","s","i","o","n"," ","m","i","s","m","a","t","c","h"," ","(","p","d","f",")">>,
        \* 'extension mismatch (pdf)'
      <<"m","a","t","c","h"," ","o","n"," ","f","i","l","e","n","a","m","e"," ","m","i","s","m","a","t","c","h"," ","o","n","l","y">>,
        \* 'match on filename mismatch only'
      <<" ","f","i","l","e","n","a","m","e"," ","m","i","s","m","a","t","c","h"," ",";">>,
        \* ' filename mismatch ;'
      <<"E","x","t","e","n","s","i","o","n"," ","m","i","s","m","a","t","c","h">>,
        \* 'Extension mismatch'
      <<"n","o"," ","m","a","t","c","h",";"," ","p","o","s","s","i","b","i","l","i","t","i","e","s"," ","b","a","s","e","d"," ","o","n"," ","e","x","t","e","n","s","i","o","n"," ","a","r","e"," ","f","m","t","/","1">>,
        \* 'no match; possibilities based on extension are fmt/1'
      <<"f","i","l","e","n","a","m","e"," ","m","i","s","m","a","t","c","h",";",";","e","x","t","e","n","s","i","o","n"," ","m","i","s","m","a","t","c","h">> }
        \* 'filename mismatch;;extension mismatch'

S_fmt == <<"f","m","t","/","1">>

S_pdf == <<"P","D","F">>

S_mime == <<"a","p","p","l","i","c","a","t","i","o","n","/","p","d","f">>

S_ver == <<"1",".","4">>

Str(v) == [form |-> "str", str |-> v]

List(v) == [form |-> "list", items |-> v]

\* a well-identified match dict with no evidence, which the sets below vary
BaseDict ==
    [id |-> S_fmt, format |-> S_pdf, version |-> Some(S_ver), mime |-> S_mime,
     basis |-> Str(<<>>), warning |-> Str(<<>>)]

\* match dicts that vary one field at a time
RichDicts ==
    {[BaseDict EXCEPT !.basis = Str(b)] : b \in BasisStrings}
    \cup {[BaseDict EXCEPT !.id = i] : i \in IdStrings}
    \cup {[BaseDict EXCEPT !.warning = Str(w)] : w \in WarningStrings}
    \cup {[BaseDict EXCEPT !.format = f, !.version = v, !.mime = m] :
             f \in {<<>>, S_pdf}, v \in {None, Some(<<>>), Some(S_ver)},
             m \in {<<>>, S_mime}}

\* match dicts that carry basis or warning in the array form
ArrayDicts ==
    {[BaseDict EXCEPT !.basis = List(<<<<"b","y","t","e"," ","m","a","t","c","h"," ","a","t"," ","1","0",","," ","4","2">>>>),
                      !.warning = List(<<>>)],
      [BaseDict EXCEPT !.basis = List(<<<<"e","x","t","e","n","s","i","o","n"," ","m","a","t","c","h"," ","p","d","f">>,
                                        <<"b","y","t","e"," ","m","a","t","c","h"," ","a","t"," ","0",","," ","8">>>>),
                      !.warning = List(<<<<"e","x","t","e","n","s","i","o","n"," ","m","i","s","m","a","t","c","h">>>>)],
      [BaseDict EXCEPT !.warning = List(<<<<"f","i","l","e","n","a","m","e"," ","m","i","s","m","a","t","c","h">>>>)]}

\* match dicts that compete for the best match of one file
RankDicts ==
    {[BaseDict EXCEPT !.id = <<"f","m","t","/","1">>,
                      !.basis = Str(<<"b","y","t","e"," ","m","a","t","c","h"," ","a","t"," ","0",","," ","5">>)],
      [BaseDict EXCEPT !.id = <<"f","m","t","/","2">>,
                      !.basis = Str(<<"b","y","t","e"," ","m","a","t","c","h"," ","a","t"," ","[","[","5"," ","1","0","]"," ","[","2","0"," ","3","0","]","]">>)],
      [BaseDict EXCEPT !.id = <<"f","m","t","/","3">>,
                      !.basis = Str(<<"b","y","t","e"," ","m","a","t","c","h"," ","a","t"," ","0",","," ","5","0"," ","(","s","i","g","n","a","t","u","r","e"," ","1","/","2",")">>)],
      [BaseDict EXCEPT !.id = <<"U","N","K","N","O","W","N">>,
                      !.basis = Str(<<"b","y","t","e"," ","m","a","t","c","h"," ","a","t"," ","0",","," ","1","0","0">>)],
      [BaseDict EXCEPT !.id = <<"x","-","f","m","t","/","4">>, !.format = <<>>,
                      !.version = None, !.mime = <<>>,
                      !.basis = Str(<<"e","x","t","e","n","s","i","o","n"," ","m","a","t","c","h"," ","p","d","f">>)]}

\* the sequences over S of length at most n
RECURSIVE SeqsUpTo(_, _)
SeqsUpTo(S, n) ==
    IF n = 0 THEN {<<>>}
    ELSE LET shorter == SeqsUpTo(S, n - 1)
         IN  shorter \cup {Append(q, x) : q \in shorter, x \in S}

\* file objects of the transport, for the payloads that vary the shape
ShapeFiles ==
    {[extra |-> e, matches |-> ms] :
        e \in BOOLEAN,
        ms \in {<<>>, <<BaseDict>>,
                 <<[BaseDict EXCEPT !.basis = List(<<>>),
                                    !.warning = List(<<>>)]>>}}

Payloads ==
    {[extra |-> FALSE, files |-> <<[extra |-> FALSE, matches |-> <<d>>]>>] :
        d \in RichDicts \cup ArrayDicts}
    \cup {[extra |-> FALSE, files |-> <<[extra |-> FALSE, matches |-> ms]>>] :
            ms \in SeqsUpTo(RankDicts, MaxMatches)}
    \cup {[extra |-> e, files |-> fs] :
            e \in BOOLEAN, fs \in SeqsUpTo(ShapeFiles, MaxFiles) \ {<<>>}}

(***************************************************************************)
(* The state: the payload Siegfried printed, what identify or               *)
(* identify_many gave the caller, and the last query made on the objects    *)
(* the caller holds.                                                        *)
(***************************************************************************)
VARIABLES stdout, returned, ret

vars == <<stdout, returned, ret>>

NotCalled == [kind |-> "none"]

NoQuery == [op |-> "none"]

\* the SiegfriedFile objects the caller holds
HeldFiles ==
    IF returned.kind \in {"result", "pairs"} THEN returned.files ELSE <<>>

Init ==
    /\ stdout \in Payloads
    /\ returned = NotCalled
    /\ ret = NoQuery

Identify ==
    /\ returned = NotCalled
    /\ returned' = identify(stdout)
    /\ UNCHANGED <<stdout, ret>>

IdentifyMany ==
    /\ returned = NotCalled
    /\ \E n \in 1..MaxFiles :
          returned' = identify_many([i \in 1..n |-> i], stdout)
    /\ UNCHANGED <<stdout, ret>>

\* the call of a SiegfriedFile method on the f-th file held: r is the
\* method's outcome
FileCall(op, f, r) ==
    /\ ret' = [op |-> op, file |-> f, value |-> r.value]
    /\ returned' = [returned EXCEPT !.files[f] = r.self]
    /\ UNCHANGED stdout

BestMatch ==
    \E f \in 1..Len(HeldFiles) :
        FileCall("best_match", f, best_match(HeldFiles[f]))

BestMatches ==
    \E f \in 1..Len(HeldFiles) :
        FileCall("best_matches", f, best_matches(HeldFiles[f]))

ByteMatch ==
    \E f \in 1..Len(HeldFiles) :
        \E i \in 1..Len(HeldFiles[f].matches) :
            /\ ret' = [op |-> "byte_match", file |-> f, match |-> i,
                       value |-> byte_match(HeldFiles[f].matches[i])]
            /\ UNCHANGED <<stdout, returned>>

ExtensionMatch ==
    \E f \in 1..Len(HeldFiles) :
        \E i \in 1..Len(HeldFiles[f].matches) :
            /\ ret' = [op |-> "extension_match", file |-> f, match |-> i,
                       value |-> extension_match(HeldFiles[f].matches[i])]
            /\ UNCHANGED <<stdout, returned>>

ExtensionMismatch ==
    \E f \in 1..Len(HeldFiles) :
        \E i \in 1..Len(HeldFiles[f].matches) :
            /\ ret' = [op |-> "extension_mismatch", file |-> f, match |-> i,
                       value |-> extension_mismatch(HeldFiles[f].matches[i])]
            /\ UNCHANGED <<stdout, returned>>

FilenameMismatch ==
    \E f \in 1..Len(HeldFiles) :
        \E i \in 1..Len(HeldFiles[f].matches) :
            /\ ret' = [op |-> "filename_mismatch", file |-> f, match |-> i,
                       value |-> filename_mismatch(HeldFiles[f].matches[i])]
            /\ UNCHANGED <<stdout, returned>>

SortTuple ==
    \E f \in 1..Len(HeldFiles) :
        \E i \in 1..Len(HeldFiles[f].matches) :
            /\ ret' = [op |-> "sort_tuple", file |-> f, match |-> i,
                       value |-> sort_tuple(HeldFiles[f].matches[i])]
            /\ UNCHANGED <<stdout, returned>>

Next ==
    \/ Identify
    \/ IdentifyMany
    \/ BestMatch
    \/ BestMatches
    \/ ByteMatch
    \/ ExtensionMatch
    \/ ExtensionMismatch
    \/ FilenameMismatch
    \/ SortTuple

Spec == Init /\ [][Next]_vars

(***************************************************************************)
(* What the properties below read from a state.                             *)
(***************************************************************************)
Called(op) == ret.op = op

\* the file object the last query was made on, and the match object
RetFile == HeldFiles[ret.file]

RetMatch == RetFile.matches[ret.match]

\* the indices of the matches of a file whose id is present
Known(file) == {i \in 1..Len(file.matches) : file.matches[i].id.some}

\* a >= b for two ranking keys
KeyGeq(a, b) == ~TupleLess(a, b)

\* the byte-match length of a match, absent counted as 0
ByteLength0(m) == IF byte_match(m).some THEN byte_match(m).val ELSE 0

\* the file objects that decoding the payload creates
DecodedFiles == SiegfriedResult_validate(stdout).val.files

\* C1: best_match() returns None when no match of the file has an id, and
\* otherwise a match of the file that has an id and whose ranking key is
\* greater than or equal to the key of every match of the file that has an id.
C1_BestMatchIsMaximalKnown ==
    Called("best_match") =>
        IF Known(RetFile) = {}
        THEN ret.value = None
        ELSE /\ ret.value.some
             /\ \E i \in Known(RetFile) : RetFile.matches[i] = ret.value.val
             /\ \A j \in Known(RetFile) :
                   KeyGeq(sort_tuple(ret.value.val),
                          sort_tuple(RetFile.matches[j]))

\* best_match() of [{id absent, byte 100}, {id "fmt/1", byte 5}] returned the
\* second match
C1_Witness ==
    /\ Called("best_match")
    /\ Len(RetFile.matches) = 2
    /\ RetFile.matches[1].id = None
    /\ byte_match(RetFile.matches[1]) = Some(100)
    /\ RetFile.matches[2].id = Some(S_fmt)
    /\ byte_match(RetFile.matches[2]) = Some(5)
    /\ ret.value = Some(RetFile.matches[2])

\* C2: best_matches() returns a permutation of exactly the matches of the
\* file that have an id, each element's ranking key greater than or equal to
\* the key of the element after it; it is empty when no match has an id.
C2_BestMatchesIsSortedPermutation ==
    Called("best_matches") =>
        /\ Len(ret.value) = Cardinality(Known(RetFile))
        /\ \A i \in Known(RetFile) :
              \E p \in 1..Len(ret.value) : ret.value[p] = RetFile.matches[i]
        /\ \A p \in 1..Len(ret.value) :
              \E i \in Known(RetFile) : ret.value[p] = RetFile.matches[i]
        /\ \A p, q \in 1..Len(ret.value) :
              p # q => ret.value[p] # ret.value[q]
        /\ \A p \in 1..(Len(ret.value) - 1) :
              KeyGeq(sort_tuple(ret.value[p]), sort_tuple(ret.value[p + 1]))

\* best_matches() of matches with byte-match lengths 5, 50, 5 and an id each
\* returned the 50 first and both 5s after it
C2_Witness ==
    /\ Called("best_matches")
    /\ Len(RetFile.matches) = 3
    /\ [i \in 1..3 |-> byte_match(RetFile.matches[i])]
           = <<Some(5), Some(50), Some(5)>>
    /\ Len(ret.value) = 3
    /\ [i \in 1..3 |-> byte_match(ret.value[i])]
           = <<Some(50), Some(5), Some(5)>>

\* C3: sort_tuple() is the 5-tuple (byte-match length with absent as 0, 1 if
\* an extension match is present else 0, 1 if format is non-empty else 0, 1 if
\* version is non-empty else 0, 1 if mime is non-empty else 0); the first
\* component is the most significant: of two matches of a file the one with
\* the longer byte match has the strictly greater key and comes earlier in
\* best_matches(), whatever the other four components are.
C3_SortTupleByteLengthFirst ==
    /\ Called("sort_tuple") =>
          ret.value = << ByteLength0(RetMatch),
                         IF extension_match(RetMatch).some THEN 1 ELSE 0,
                         IF RetMatch.format # <<>> THEN 1 ELSE 0,
                         IF RetMatch.version.some /\ RetMatch.version.val # <<>>
                            THEN 1 ELSE 0,
                         IF RetMatch.mime # <<>> THEN 1 ELSE 0 >>
    /\ Called("sort_tuple") =>
          \A j \in 1..Len(RetFile.matches) :
              /\ ByteLength0(RetMatch) < ByteLength0(RetFile.matches[j])
                    => TupleLess(ret.value, sort_tuple(RetFile.matches[j]))
              /\ ByteLength0(RetMatch) > ByteLength0(RetFile.matches[j])
                    => TupleLess(sort_tuple(RetFile.matches[j]), ret.value)
    /\ Called("best_matches") =>
          \A p, q \in 1..Len(ret.value) :
              ByteLength0(ret.value[p]) > ByteLength0(ret.value[q]) => p < q

\* sort_tuple() gave a key with byte-match length 50 for a match whose file
\* holds another match with no byte match and an extension match
C3_Witness ==
    /\ Called("sort_tuple")
    /\ ret.value = <<50, 0, 1, 1, 1>>
    /\ \E j \in 1..Len(RetFile.matches) :
          sort_tuple(RetFile.matches[j]) = <<0, 1, 0, 0, 0>>

\* s is the word "unknown" in any letter case, with or without whitespace
\* around it
IsUnknownWord(s) ==
    \E a \in 1..Len(s) :
        /\ a + Len(UnknownLit) - 1 <= Len(s)
        /\ \A k \in 1..(a - 1) : s[k] \in Whitespace
        /\ \A k \in (a + Len(UnknownLit))..Len(s) : s[k] \in Whitespace
        /\ \A k \in 1..Len(UnknownLit) :
              \/ s[a + k - 1] = UnknownLit[k]
              \/ \E u \in 1..Len(UpperCase) :
                    s[a + k - 1] = UpperCase[u] /\ LowerCase[u] = UnknownLit[k]

\* the match dict of the payload that a match object was decoded from
DictOf(f, m) == stdout.files[f].matches[m.oid]

\* C4: a match dict whose id is "unknown" in any letter case and padding is
\* decoded to a match without id; no decoded match has an id that is the word
\* "unknown", and best_match() and best_matches() return no match decoded
\* from such a dict.
C4_UnknownIdIsAbsent ==
    /\ \A f \in 1..Len(HeldFiles) :
          \A i \in 1..Len(HeldFiles[f].matches) :
              LET m == HeldFiles[f].matches[i]
              IN  /\ IsUnknownWord(DictOf(f, m).id) => ~m.id.some
                  /\ m.id.some => ~IsUnknownWord(m.id.val)
    /\ Called("best_match") /\ ret.value.some =>
          ~IsUnknownWord(DictOf(ret.file, ret.value.val).id)
    /\ Called("best_matches") =>
          \A p \in 1..Len(ret.value) :
              ~IsUnknownWord(DictOf(ret.file, ret.value[p]).id)

\* best_match() returned None for a file whose only match was decoded from a
\* dict with the id "unknown" in mixed case between whitespace
C4_Witness ==
    /\ Called("best_match")
    /\ ret.value = None
    /\ Len(RetFile.matches) = 1
    /\ stdout.files[ret.file].matches[1].id
           = <<"\t", "u", "N", "k", "N", "o", "W", "n", "\n">>
    /\ RetFile.matches[1].id = None

\* the value of a run of decimal digits, by place
RECURSIVE PlaceSum(_, _)
PlaceSum(s, i) ==
    IF i > Len(s) THEN 0
    ELSE DigitValue(s[i]) * 10^(Len(s) - i) + PlaceSum(s, i + 1)

IsNumber(s) == s # <<>> /\ \A i \in 1..Len(s) : IsDigit(s[i])

IsBlank(s) == \A i \in 1..Len(s) : s[i] = " "

\* a parenthetical note: "(", text without ")", ")"
IsNote(s) ==
    /\ Len(s) >= 2
    /\ s[1] = "(" /\ s[Len(s)] = ")"
    /\ \A i \in 2..(Len(s) - 1) : s[i] # ")"

\* the spans <<start, end>> that entry e states in the single-span shape
\* "byte match at <start>,<blanks><end>", alone or followed by blanks and a
\* note
SingleSpans(e) ==
    LET n == Len(e)
        p == Len(ByteMatchAt)
    IN  IF n <= p \/ SubSeq(e, 1, p) # ByteMatchAt THEN {}
        ELSE { <<PlaceSum(SubSeq(e, p + 1, t[1] - 1), 1),
                 PlaceSum(SubSeq(e, t[2], t[3] - 1), 1)>> :
               t \in { u \in {i \in (p + 1)..n : e[i] = ","}
                              \X ((p + 1)..n) \X ((p + 1)..(n + 1)) :
                         /\ u[1] < u[2] /\ u[2] < u[3]
                         /\ IsNumber(SubSeq(e, p + 1, u[1] - 1))
                         /\ IsBlank(SubSeq(e, u[1] + 1, u[2] - 1))
                         /\ IsNumber(SubSeq(e, u[2], u[3] - 1))
                         /\ \/ u[3] = n + 1
                            \/ \E m \in u[3]..n :
                                  /\ IsBlank(SubSeq(e, u[3], m - 1))
                                  /\ IsNote(SubSeq(e, m, n)) } }

\* "<number><blanks><number>" with at least one blank; the set of the
\* pairs <<first number, second number>> it can be read as
PairValues(s) ==
    { <<PlaceSum(SubSeq(s, 1, t[1] - 1), 1),
        PlaceSum(SubSeq(s, t[2], Len(s)), 1)>> :
      t \in { u \in (1..Len(s)) \X (1..Len(s)) :
                /\ u[1] < u[2]
                /\ IsNumber(SubSeq(s, 1, u[1] - 1))
                /\ IsBlank(SubSeq(s, u[1], u[2] - 1))
                /\ IsNumber(SubSeq(s, u[2], Len(s))) } }

\* zero or more further pairs, each " [<number><blanks><number>]"
RECURSIVE IsPairs(_)
IsPairs(s) ==
    \/ s = <<>>
    \/ \E m \in 4..Len(s) :
          /\ s[1] = " " /\ s[2] = "[" /\ s[m] = "]"
          /\ PairValues(SubSeq(s, 3, m - 1)) # {}
          /\ IsPairs(SubSeq(s, m + 1, Len(s)))

\* the spans <<start, end>> that entry e states in the multi-span shape
\* "byte match at [[<start> <end>] [<start2> <end2>] ...]", alone or followed
\* by a blank and a note: the first pair
MultiSpans(e) ==
    LET n == Len(e)
        p == Len(ByteMatchAt) + 2
    IN  IF n <= p \/ SubSeq(e, 1, p) # ByteMatchAt \o <<"[", "[">> THEN {}
        ELSE UNION { PairValues(SubSeq(e, p + 1, t[1] - 1)) :
               t \in { u \in {i \in (p + 1)..n : e[i] = "]"}
                              \X {i \in (p + 1)..n : e[i] = "]"} :
                         /\ u[1] < u[2]
                         /\ IsPairs(SubSeq(e, u[1] + 1, u[2] - 1))
                         /\ \/ u[2] = n
                            \/ /\ u[2] + 1 < n
                               /\ e[u[2] + 1] = " "
                               /\ IsNote(SubSeq(e, u[2] + 2, n)) } }

Spans(e) == SingleSpans(e) \cup MultiSpans(e)

\* C5: byte_match() is end - start of the byte range that a basis entry
\* states in the single-span shape or, by its first pair, in the multi-span
\* shape; it is None when no basis entry has either shape.
C5_ByteMatchIsSpanLength ==
    Called("byte_match") =>
        IF \E i \in 1..Len(RetMatch.basis) : Spans(RetMatch.basis[i]) # {}
        THEN /\ ret.value.some
             /\ \E i \in 1..Len(RetMatch.basis) :
                   \E span \in Spans(RetMatch.basis[i]) :
                       ret.value.val = span[2] - span[1]
        ELSE ret.value = None

\* byte_match() gave 15 for the basis "byte match at [[5 20] [5 20]]"
C5_Witness ==
    /\ Called("byte_match")
    /\ RetMatch.basis = << ByteMatchAt \o
                           <<"[","[","5"," ","2","0","]"," ",
                             "[","5"," ","2","0","]","]">> >>
    /\ ret.value = Some(15)

\* the position of a match object in the matches its file was decoded with
InputPosition(m) == m.oid

\* C10: best_match() has the ranking key of the first element of
\* best_matches(); among the matches with an id that tie on the greatest key
\* it returns the latest in the input order, while best_matches() keeps
\* matches with equal keys in their input order; neither call changes the
\* stored matches.
C10_TieBreaking ==
    /\ Called("best_match") /\ ret.value.some =>
          /\ best_matches(RetFile).value # <<>>
          /\ sort_tuple(ret.value.val)
                = sort_tuple(best_matches(RetFile).value[1])
          /\ \A j \in Known(RetFile) :
                sort_tuple(RetFile.matches[j]) = sort_tuple(ret.value.val)
                   => InputPosition(RetFile.matches[j])
                         <= InputPosition(ret.value.val)
    /\ Called("best_matches") =>
          \A p, q \in 1..Len(ret.value) :
              p < q /\ sort_tuple(ret.value[p]) = sort_tuple(ret.value[q])
                 => InputPosition(ret.value[p]) < InputPosition(ret.value[q])
    /\ HeldFiles # <<>> =>
          HeldFiles = SubSeq(DecodedFiles, 1, Len(HeldFiles))

\* best_match() returned the later of two matches with an id that tie on the
\* greatest key of their file
C10_Witness ==
    /\ Called("best_match")
    /\ ret.value.some
    /\ \E j \in Known(RetFile) :
          /\ InputPosition(RetFile.matches[j]) < InputPosition(ret.value.val)
          /\ sort_tuple(RetFile.matches[j]) = sort_tuple(ret.value.val)
          /\ RetFile.matches[j].id # ret.value.val.id

\* lit occurs inside s
Contains(s, lit) ==
    \E i \in 1..(Len(s) - Len(lit) + 1) : SubSeq(s, i, i + Len(lit) - 1) = lit

\* e is a basis entry of the form "extension match <token>", the token
\* possibly followed by a parenthetical annotation
IsExtensionEntry(e) ==
    /\ Len(e) > Len(ExtensionMatchLit)
    /\ SubSeq(e, 1, Len(ExtensionMatchLit)) = ExtensionMatchLit

\* the text after "extension match " without a trailing "(...)"
BeforeAnnotation(rest) ==
    IF rest[Len(rest)] = ")" /\ \E k \in 1..Len(rest) : rest[k] = "("
    THEN SubSeq(rest, 1,
                (CHOOSE k \in 1..Len(rest) :
                     rest[k] = "(" /\ \A j \in (k + 1)..Len(rest) : rest[j] # "(")
                - 1)
    ELSE rest

\* the token of an extension entry: trimmed, without the annotation
TokenOf(e) ==
    strip(BeforeAnnotation(SubSeq(e, Len(ExtensionMatchLit) + 1, Len(e))))

\* C6: extension_match() returns the token of a basis entry of the form
\* "extension match <token>", trimmed and without a trailing parenthetical
\* annotation, and None when no basis entry has that form.
C6_ExtensionMatchIsToken ==
    Called("extension_match") =>
        IF \E i \in 1..Len(RetMatch.basis) : IsExtensionEntry(RetMatch.basis[i])
        THEN \E i \in 1..Len(RetMatch.basis) :
                 /\ IsExtensionEntry(RetMatch.basis[i])
                 /\ ret.value = Some(TokenOf(RetMatch.basis[i]))
        ELSE ret.value = None

\* every basis and warning of the payload has the single-string form
AllStringForm ==
    \A f \in 1..Len(stdout.files) :
        \A i \in 1..Len(stdout.files[f].matches) :
            /\ stdout.files[f].matches[i].basis.form = "str"
            /\ stdout.files[f].matches[i].warning.form = "str"

\* the scan object or a file object of the payload has an undeclared key
HasUnknownKey ==
    stdout.extra \/ \E f \in 1..Len(stdout.files) : stdout.files[f].extra

\* C7: a payload whose scan object or any file object has a key that is not
\* a declared field is rejected by identify() and identify_many() with
\* IdentificationError, and nothing is returned for it.
C7_UnknownKeysRejected ==
    returned # NotCalled /\ AllStringForm /\ HasUnknownKey =>
        returned = [kind |-> "raise", exc |-> "IdentificationError"]

\* C8: extension_mismatch() is true exactly when "extension mismatch" occurs
\* inside at least one warning entry, and filename_mismatch() exactly when
\* "filename mismatch" does.
C8_MismatchIsSubstring ==
    /\ Called("extension_mismatch") =>
          ret.value = \E i \in 1..Len(RetMatch.warning) :
                          Contains(RetMatch.warning[i], ExtensionMismatchLit)
    /\ Called("filename_mismatch") =>
          ret.value = \E i \in 1..Len(RetMatch.warning) :
                          Contains(RetMatch.warning[i], FilenameMismatchLit)

\* s without the whitespace around it
Trimmed(s) ==
    IF \A i \in 1..Len(s) : s[i] \in Whitespace THEN <<>>
    ELSE SubSeq(s,
                CHOOSE a \in 1..Len(s) :
                    s[a] \notin Whitespace /\ \A j \in 1..(a - 1) : s[j] \in Whitespace,
                CHOOSE b \in 1..Len(s) :
                    s[b] \notin Whitespace /\ \A j \in (b + 1)..Len(s) : s[j] \in Whitespace)

\* the positions that bound the fragments of a ";"-delimited string
Cuts(s) == {0, Len(s) + 1} \cup {i \in 1..Len(s) : s[i] = ";"}

\* the fragment of s that starts after the cut c
FragmentAfter(s, c) ==
    SubSeq(s, c + 1,
           (CHOOSE n \in Cuts(s) :
                n > c /\ \A x \in Cuts(s) : x > c => n <= x) - 1)

\* the cuts of s after which a fragment with more than whitespace starts
FragmentStarts(s) ==
    {c \in Cuts(s) \ {Len(s) + 1} : Trimmed(FragmentAfter(s, c)) # <<>>}

\* the fragments of a ";"-delimited string in their order, trimmed, without
\* the empty ones
Fragments(s) ==
    [k \in 1..Cardinality(FragmentStarts(s)) |->
        Trimmed(FragmentAfter(s,
            CHOOSE c \in FragmentStarts(s) :
                Cardinality({x \in FragmentStarts(s) : x < c}) = k - 1))]

\* what a transport value of basis or warning is to be decoded to
DecodedField(field) ==
    IF field.form = "str" THEN Fragments(field.str) ELSE field.items

\* C9 for the single-string form alone: each held match has the fragments of
\* its dict's basis and warning
StringFormDecoded ==
    \A f \in 1..Len(HeldFiles) :
        \A i \in 1..Len(HeldFiles[f].matches) :
            LET m == HeldFiles[f].matches[i]
            IN  /\ m.basis = Fragments(DictOf(f, m).basis.str)
                /\ m.warning = Fragments(DictOf(f, m).warning.str)

\* C9: decoding a match object accepts basis and warning in both transport
\* forms: a payload without unknown keys is decoded, and each decoded match
\* has, for a single-string field, its fragments in order, trimmed and
\* without the empty ones, and for an array field, the strings of the array.
C9_BothTransportForms ==
    returned # NotCalled /\ ~HasUnknownKey =>
        /\ returned.kind # "raise"
        /\ \A f \in 1..Len(HeldFiles) :
              \A i \in 1..Len(HeldFiles[f].matches) :
                  LET m == HeldFiles[f].matches[i]
                  IN  /\ m.basis = DecodedField(DictOf(f, m).basis)
                      /\ m.warning = DecodedField(DictOf(f, m).warning)

====
